---- MODULE Spec2Model ----
(***************************************************************************)
(* The resilient external-call core of shopsmart-demo-app: the circuit     *)
(* breaker (three identical copies in the auth, order-processing and       *)
(* product-catalog error_handler.py), the managers that guard an operation *)
(* with it, and the two retry loops (HTTPClientService._make_request and   *)
(* CacheManager.set_with_retry).                                           *)
(*                                                                         *)
(* The services run on one asyncio event loop: code between two awaits is  *)
(* one atomic step.  CircuitBreaker.call is therefore two steps, the entry *)
(* check up to `await func()` and the handling of the outcome after it.    *)
(***************************************************************************)
EXTENDS Integers, Sequences, FiniteSets, TLC

\* ------------------------------------------------------------- bounds ----
NumCallers   == 2   \* concurrent requests that share one breaker
MaxCalls     == 5   \* call() invocations in one behaviour
MaxTime      == 4   \* clock horizon, in ticks of TickSeconds
MaxThreshold == 3   \* failure_threshold of a directly constructed breaker
MaxRetries   == 3   \* HTTPClientService.retries / RetryConfig.max_attempts
MaxBaseDelay == 2   \* RetryConfig.base_delay, in tenths of a second
MaxMaxDelay  == 3   \* RetryConfig.max_delay, in tenths of a second

\* seconds between two observations of datetime.utcnow()
TickSeconds == 30

None == -1          \* last_failure_time = None

Procs == 1..NumCallers

VARIABLES
    \* CircuitBreaker fields
    owner,              \* who constructed the breaker
    failure_threshold,
    recovery_timeout,
    failure_count,
    last_failure_time,
    state,
    \* environment of the breaker
    now,                \* datetime.utcnow(), in ticks
    pc,                 \* per caller: "idle" or "infunc" (suspended in await func())
    entered,            \* per caller: breaker state in which the running call was let through
    calls,              \* call() invocations so far
    dispatched,         \* invocations of func so far
    seqFails,           \* consecutive one-at-a-time calls whose func raised the counted exception
    recovered,          \* the dependency has recovered: every func call that returns from now on succeeds
    \* retry loops
    op,                 \* "_make_request" or "set_with_retry"
    retries,            \* HTTPClientService.retries
    retry_config,       \* CacheManager.retry_config
    attempt,            \* loop variable
    rpc,                \* "attempt", "sleep" or "done"
    invoked,            \* invocations of the operation so far
    failed,             \* of which failed with a failure the loop retries
    lastOutcome,        \* outcome of the latest invocation
    last_exception,
    delays,             \* the delays slept so far, in tenths of a second
    result,             \* what the caller receives
    correlation_id_var, \* the correlation id of the request context, or "None"
    headers,            \* kwargs["headers"]["X-Correlation-ID"]
    sent,               \* the X-Correlation-ID of each request dispatched so far
    \* ServiceDiscovery fields
    service_cache,      \* _service_cache: per service an entry, present or not
    last_cache_update,  \* _last_cache_update, in ticks of the loop clock
    ssm_available,      \* _ssm_available
    \* environment of the service discovery
    environ,            \* os.environ, the service URL variables
    loop_time,          \* asyncio.get_event_loop().time(), in ticks
    tasks,              \* per caller: the call created together with the others and not yet run
    batchFetches,       \* registry fetches made on an invalid cache by the endpoint calls created together
    lastFetch,          \* what the latest call did with the registry: "none", "ok" or "failed"
    sdResult,           \* what the latest call returned
    allServices,        \* what the latest get_all_services returned
    fetched,            \* the latest answer of get_parameters_by_path, parsed, and its time
    \* one operation of HTTPClientService
    client_op,          \* the operation called
    use_service_discovery,
    fallback_urls,      \* fallback_auth_url / fallback_product_url, per service
    discovered,         \* what get_service_endpoint returns to _get_service_url
    cpc,                \* "start", "request" or "done"
    requests,           \* calls of _make_request so far
    client_result,      \* what the operation's caller receives
    \* ExternalServiceManager objects
    instances,          \* per object: its service_name and the fields of its circuit_breaker
    \* one row of product_catalog and the calls of ProductService on it
    inventory_count,
    ipc,                \* per caller: "idle", or "checked" between the SELECT and the UPDATE of reserve_inventory
    ireq,               \* per caller: request.quantity of the running reserve_inventory
    iresult,            \* per caller: what the latest call returned
    \* one order document and the requests on it
    order_status,       \* the stored status, or "absent"
    opc,                \* per caller: "idle", or "checked" between the read and the write of confirm_order
    oresult             \* per caller: the status code of the latest request

breakerVars == <<owner, failure_threshold, recovery_timeout, failure_count,
                 last_failure_time, state, now, pc, entered, calls,
                 dispatched, seqFails, recovered>>
retryVars   == <<op, retries, retry_config, attempt, rpc, invoked, failed,
                 lastOutcome, last_exception, delays, result,
                 correlation_id_var, headers, sent>>
sdVars      == <<service_cache, last_cache_update, ssm_available, environ,
                 loop_time, tasks, batchFetches, lastFetch, sdResult,
                 allServices, fetched>>
clientVars  == <<client_op, use_service_discovery, fallback_urls, discovered,
                 cpc, requests, client_result>>
\* the variables outside the breaker, the retry loops and the service discovery
instVars    == <<instances>>
invVars     == <<inventory_count, ipc, ireq, iresult>>
orderVars   == <<order_status, opc, oresult>>
restVars    == <<clientVars, instVars, invVars, orderVars>>
vars        == <<breakerVars, retryVars, sdVars, restVars>>

\* ------------------------------------------- service discovery values ----
\* a URL or path is the sequence of its pieces; "" is <<>>
Missing == <<"None">>       \* Python None where a URL is expected

Services == {"auth", "product-catalog"}
EnvVars  == {"AUTH_SERVICE_URL", "PRODUCT_SERVICE_URL"}

\* the properties of one service under the SSM prefix; present = FALSE when
\* the service has no parameter at all
NoEntry == [present |-> FALSE, full_url |-> Missing, health_endpoint |-> Missing]

EmptyCache == [s \in Services |-> NoEntry]

\* no call is waiting to run
NoTask == <<"-", "-">>

NoResult == [op |-> "-", service |-> "-", source |-> "-", url |-> Missing]

\* no fetch has succeeded yet
NothingFetched == [services |-> EmptyCache, at |-> 0]

\* a service discovery nobody calls
SdParked ==
    /\ service_cache = EmptyCache
    /\ last_cache_update = 0
    /\ ssm_available = FALSE
    /\ environ = [v \in EnvVars |-> Missing]
    /\ loop_time = 0
    /\ tasks = [p \in Procs |-> NoTask]
    /\ batchFetches = 0
    /\ lastFetch = "none"
    /\ sdResult = NoResult
    /\ allServices = EmptyCache
    /\ fetched = NothingFetched

\* no ExternalServiceManager has been constructed
NoManager == [service_name |-> "-", failure_count |-> 0, state |-> "CLOSED",
              last_failure_time |-> None]

NumManagers == 2    \* ExternalServiceManager objects in the process

ManagerIds == 1..NumManagers

InstParked == instances = [i \in ManagerIds |-> NoManager]

\* a product nobody touches
InvParked ==
    /\ inventory_count = 0
    /\ ipc = [p \in Procs |-> "idle"]
    /\ ireq = [p \in Procs |-> 0]
    /\ iresult = [p \in Procs |-> "-"]

\* an order nobody touches
OrdersParked ==
    /\ order_status = "absent"
    /\ opc = [p \in Procs |-> "idle"]
    /\ oresult = [p \in Procs |-> "-"]

\* an HTTPClientService nobody calls
ClientParked ==
    /\ client_op = "-"
    /\ use_service_discovery = FALSE
    /\ fallback_urls = [s \in Services |-> Missing]
    /\ discovered = Missing
    /\ cpc = "done"
    /\ requests = 0
    /\ client_result = <<"-", "-">>

\* everything outside the breaker, the retry loops and the service discovery is idle
RestParked == ClientParked /\ InstParked /\ InvParked /\ OrdersParked

\* ------------------------------------------------- managers and errors ----
Managers == {"DynamoDBManager", "MongoDBManager", "DatabaseConnectionManager",
             "ExternalServiceManager"}
Owners   == {"CircuitBreaker"} \cup Managers

\* failure_threshold / recovery_timeout each manager's __init__ passes
ManagerThreshold(m) == IF m = "ExternalServiceManager" THEN 3 ELSE 5
ManagerRecovery(m)  == IF m = "ExternalServiceManager" THEN 60 ELSE 30
RecoveryTimeouts    == {30, 60}

\* expected_exception each owner passes; a directly constructed breaker is
\* modelled with an abstract counted class "Expected"
ExpectedException(m) ==
    CASE m = "DynamoDBManager"           -> "DynamoDBError"
      [] m = "MongoDBManager"            -> "MongoDBError"
      [] m = "DatabaseConnectionManager" -> "DatabaseError"
      [] m = "ExternalServiceManager"    -> "ExternalServiceError"
      [] OTHER                           -> "Expected"

\* errors of the caller's making that the guarded operation itself raises
\* (the services' own ServiceError subclasses)
CallerErrors == {"ValidationError", "NotFoundError", "ConflictError"}

\* what the guarded operation can do, per owner: "ok", a driver exception,
\* or an error the operation raised itself
RawOutcomes(m) ==
    CASE m = "DynamoDBManager" ->
            {"ok", "ResourceNotFoundException", "ConditionalCheckFailedException",
             "ProvisionedThroughputExceededException", "ValidationException",
             "ClientError", "BotoCoreError", "Exception"} \cup CallerErrors
      [] m = "MongoDBManager" ->
            {"ok", "DuplicateKeyError", "WriteError", "OperationFailure11000",
             "OperationFailure", "ConnectionFailure", "ServerSelectionTimeoutError",
             "PyMongoError", "Exception"} \cup CallerErrors
      [] m = "DatabaseConnectionManager" ->
            {"ok", "UniqueViolationError", "PostgresError", "Exception"} \cup CallerErrors
      [] m = "ExternalServiceManager" ->
            {"ok", "Exception"} \cup CallerErrors
      [] OTHER -> {"ok", "Expected", "Other"}

\* the exception func raises to CircuitBreaker.call for a raw outcome
\* (the manager's inner _execute / _call), or "ok"
Classify(m, raw) ==
    IF raw = "ok" THEN "ok"
    ELSE CASE m = "DynamoDBManager" ->
                CASE raw = "ResourceNotFoundException"              -> "NotFoundError"
                  [] raw = "ConditionalCheckFailedException"        -> "ConflictError"
                  [] raw = "ProvisionedThroughputExceededException" -> "RateLimitError"
                  [] raw = "ValidationException"                    -> "ValidationError"
                  [] OTHER                                          -> "DynamoDBError"
           [] m = "MongoDBManager" ->
                CASE raw = "DuplicateKeyError"     -> "ConflictError"
                  [] raw = "OperationFailure11000" -> "ConflictError"
                  [] OTHER                         -> "MongoDBError"
           [] m = "DatabaseConnectionManager" -> "DatabaseError"
           [] m = "ExternalServiceManager"    -> "ExternalServiceError"
           [] OTHER                           -> raw

\* retry_config.max_attempts of a manager: RetryConfig() by default,
\* RetryConfig(max_attempts=3, base_delay=0.5) for ExternalServiceManager
ManagerMaxAttempts(m) == 3

\* raw failures of the dependency itself (connection, timeout, SDK)
TransientRaw == {"BotoCoreError", "ConnectionFailure", "ServerSelectionTimeoutError",
                 "PostgresError"}

\* `except self.expected_exception`
Counted(m, exc) == exc = ExpectedException(m)

\* the taxonomy kind of a raw failure that reflects a caller mistake
IsCallerMistake(raw) ==
    raw \in CallerErrors \cup {"ResourceNotFoundException", "ConditionalCheckFailedException",
                               "ValidationException", "DuplicateKeyError",
                               "OperationFailure11000", "UniqueViolationError"}

\* ------------------------------------------------------ CircuitBreaker ----
Elapsed == (now - last_failure_time) * TickSeconds

\* a reset check that never finds recovery_timeout elapsed
ShouldAttemptResetNever ==
    IF last_failure_time = None THEN TRUE
    ELSE Elapsed >= recovery_timeout /\ Elapsed < 0

\* a reset check that does not wait for recovery_timeout
ShouldAttemptResetAtOnce ==
    IF last_failure_time = None THEN TRUE
    ELSE Elapsed >= 0

ShouldAttemptReset ==
    IF last_failure_time = None THEN TRUE
    ELSE Elapsed >= recovery_timeout

\* _on_success that forgets to close the breaker
OnSuccessKeepState ==
    /\ failure_count' = 0
    /\ UNCHANGED <<state, last_failure_time>>

\* _on_success that closes the breaker but keeps the count
OnSuccessKeepCount ==
    /\ state' = "CLOSED"
    /\ UNCHANGED <<failure_count, last_failure_time>>

OnSuccess ==
    /\ failure_count' = 0
    /\ state' = "CLOSED"
    /\ UNCHANGED last_failure_time

\* _on_failure that stops counting once the breaker is OPEN
OnFailureNotCountedWhenOpen ==
    /\ failure_count' = IF state = "OPEN" THEN failure_count ELSE failure_count + 1
    /\ last_failure_time' = now
    /\ state' = IF failure_count + 1 >= failure_threshold THEN "OPEN" ELSE state

\* _on_failure that trips one failure late
OnFailureLate ==
    /\ failure_count' = failure_count + 1
    /\ last_failure_time' = now
    /\ state' = IF failure_count + 1 > failure_threshold THEN "OPEN" ELSE state

OnFailure ==
    /\ failure_count' = failure_count + 1
    /\ last_failure_time' = now
    /\ state' = IF failure_count + 1 >= failure_threshold THEN "OPEN" ELSE state

OthersInFlight(p) == \E q \in Procs \ {p} : pc[q] = "infunc"
AllIdle == \A p \in Procs : pc[p] = "idle"

\* the counters of calls are a record of the time before the recovery: they
\* are bounded by MaxCalls and no longer kept once the dependency has recovered
Counting(n) == IF recovered THEN n ELSE n + 1

\* call(), up to `await func()`: reject, or let the call through
Call(p) ==
    /\ pc[p] = "idle"
    /\ recovered \/ calls < MaxCalls
    /\ calls' = Counting(calls)
    /\ IF state = "OPEN" /\ ~ShouldAttemptReset
       THEN \* raise ServiceError(CIRCUIT_BREAKER_OPEN)
            /\ UNCHANGED <<state, pc, entered, dispatched, seqFails>>
       ELSE /\ state' = IF state = "OPEN" THEN "HALF_OPEN" ELSE state
            /\ pc' = [pc EXCEPT ![p] = "infunc"]
            /\ entered' = [entered EXCEPT ![p] = state']
            /\ dispatched' = Counting(dispatched)
            /\ seqFails' = IF OthersInFlight(p) THEN 0 ELSE seqFails
    /\ UNCHANGED <<owner, failure_threshold, recovery_timeout, failure_count,
                   last_failure_time, now, recovered>>
    /\ UNCHANGED <<retryVars, sdVars, restVars>>

\* call(), after func: _on_success, _on_failure, or an uncounted exception
Return(p, raw) ==
    /\ pc[p] = "infunc"
    /\ raw \in RawOutcomes(owner)
    /\ recovered => raw = "ok"
    /\ pc' = [pc EXCEPT ![p] = "idle"]
    /\ entered' = [entered EXCEPT ![p] = "-"]
    /\ LET exc == Classify(owner, raw) IN
         IF exc = "ok"
         THEN OnSuccess /\ seqFails' = 0
         ELSE IF Counted(owner, exc)
         THEN OnFailure /\ seqFails' = IF OthersInFlight(p) THEN 0 ELSE seqFails + 1
         ELSE UNCHANGED <<failure_count, state, last_failure_time>> /\ seqFails' = 0
    /\ UNCHANGED <<owner, failure_threshold, recovery_timeout, now, calls, dispatched,
                   recovered>>
    /\ UNCHANGED <<retryVars, sdVars, restVars>>

Complete(p) == \E raw \in RawOutcomes(owner) : Return(p, raw)

Tick ==
    /\ now < MaxTime
    /\ now' = now + 1
    /\ UNCHANGED <<owner, failure_threshold, recovery_timeout, failure_count,
                   last_failure_time, state, pc, entered, calls, dispatched, seqFails,
                   recovered>>
    /\ UNCHANGED <<retryVars, sdVars, restVars>>

\* the dependency recovers, early enough for recovery_timeout to elapse
\* within the clock horizon
Recover ==
    /\ ~recovered
    /\ (MaxTime - now) * TickSeconds >= recovery_timeout
    /\ recovered' = TRUE
    /\ UNCHANGED <<owner, failure_threshold, recovery_timeout, failure_count,
                   last_failure_time, state, now, pc, entered, calls, dispatched,
                   seqFails>>
    /\ UNCHANGED <<retryVars, sdVars, restVars>>

\* CircuitBreaker.__init__, by a manager's __init__ or directly
BreakerInit ==
    /\ owner \in Owners
    /\ IF owner \in Managers
       THEN /\ failure_threshold = ManagerThreshold(owner)
            /\ recovery_timeout = ManagerRecovery(owner)
       ELSE /\ failure_threshold \in 1..MaxThreshold
            /\ recovery_timeout \in RecoveryTimeouts
    /\ failure_count = 0
    /\ last_failure_time = None
    /\ state = "CLOSED"
    /\ now = 0
    /\ pc = [p \in Procs |-> "idle"]
    /\ entered = [p \in Procs |-> "-"]
    /\ calls = 0
    /\ dispatched = 0
    /\ seqFails = 0
    /\ recovered = FALSE

\* the retry loops are not running
RetryParked ==
    /\ op = "-"
    /\ retries = 0
    /\ retry_config = [max_attempts |-> 1, base_delay |-> 1, max_delay |-> 1]
    /\ attempt = 0
    /\ rpc = "done"
    /\ invoked = 0
    /\ failed = 0
    /\ lastOutcome = "-"
    /\ last_exception = "None"
    /\ delays = <<>>
    /\ result = <<"-", "-">>
    /\ correlation_id_var = "None"
    /\ headers = "-"
    /\ sent = <<>>

Init == BreakerInit /\ RetryParked /\ SdParked /\ RestParked

Next ==
    \/ \E p \in Procs : Call(p)
    \/ \E p \in Procs : Complete(p)
    \/ Tick

Spec == Init /\ [][Next]_vars

\* the breaker with a dependency that recovers; time advances, call() keeps
\* being invoked and every awaited func returns
NextLive ==
    \/ \E p \in Procs : Call(p)
    \/ \E p \in Procs : Complete(p)
    \/ Tick
    \/ Recover

SpecLive ==
    /\ Init
    /\ [][NextLive]_vars
    /\ WF_vars(Tick)
    /\ \A p \in Procs : WF_vars(Call(p)) /\ WF_vars(Complete(p))

\* ------------------------------------------------ breaker properties ----
NotRecovered ==
    /\ last_failure_time # None
    /\ (now - last_failure_time) * TickSeconds < recovery_timeout

TrialInFlight(p) ==
    \E q \in Procs \ {p} : pc[q] = "infunc" /\ entered[q] = "HALF_OPEN"

\* C1: once failure_threshold one-at-a-time calls in a row have raised the
\* counted exception the breaker is OPEN, and a call() that finds it OPEN
\* before recovery_timeout has elapsed is rejected: func is not invoked and
\* the breaker stays OPEN.
C1_TripThenReject ==
    [][ /\ (seqFails' >= failure_threshold /\ AllIdle') => state' = "OPEN"
        /\ \A p \in Procs :
             (Call(p) /\ state = "OPEN" /\ NotRecovered)
                => (dispatched' = dispatched /\ pc' = pc /\ state' = "OPEN") ]_vars

\* three failures in a row with failure_threshold = 3, the 4th call rejected
C1_Witness ==
    /\ failure_threshold = 3
    /\ seqFails = 3
    /\ state = "OPEN"
    /\ calls = 4
    /\ dispatched = 3
    /\ AllIdle

\* C2: while a trial call let through in HALF_OPEN is still in flight, no
\* other call() on the breaker is dispatched to func.
C2_OneTrialCall ==
    [][ \A p \in Procs :
          (Call(p) /\ state = "HALF_OPEN" /\ TrialInFlight(p))
             => dispatched' = dispatched ]_vars

\* C3: a call let through in HALF_OPEN leaves the breaker CLOSED with
\* failure_count = 0 when func succeeds, and OPEN with last_failure_time = now
\* when func fails (read in the claim's favour: fails with the counted
\* exception).
C3_HalfOpenOutcome ==
    [][ \A p \in Procs : \A raw \in RawOutcomes(owner) :
          (Return(p, raw) /\ entered[p] = "HALF_OPEN")
             => /\ raw = "ok" => (state' = "CLOSED" /\ failure_count' = 0)
                /\ Counted(owner, Classify(owner, raw))
                      => (state' = "OPEN" /\ last_failure_time' = now) ]_vars

\* C4: an OPEN breaker has last_failure_time set and
\* failure_count >= failure_threshold.
C4_OpenImplies ==
    state = "OPEN" =>
        (last_failure_time # None /\ failure_count >= failure_threshold)

\* the breaker is OPEN while a call dispatched earlier is still in flight
C4_Witness ==
    /\ state = "OPEN"
    /\ \E p \in Procs : pc[p] = "infunc" /\ entered[p] = "CLOSED"

\* C5: the breaker is never CLOSED with failure_count >= failure_threshold.
C5_NeverClosedOverThreshold ==
    ~(state = "CLOSED" /\ failure_count >= failure_threshold)

\* a call dispatched before the trip succeeds right after the failure that
\* tripped the breaker (same instant, so no trial call was possible)
C5_Witness ==
    /\ failure_threshold = 1
    /\ state = "CLOSED"
    /\ failure_count = 0
    /\ last_failure_time = now

\* C6: a guarded call that fails with a Validation, NotFound or Conflict
\* error leaves failure_count, state and last_failure_time unchanged.
C6_CallerMistakesNotCounted ==
    [][ \A p \in Procs : \A raw \in RawOutcomes(owner) :
          (Return(p, raw) /\ IsCallerMistake(raw))
             => UNCHANGED <<failure_count, state, last_failure_time>> ]_vars

\* C11: DynamoDBManager, MongoDBManager and DatabaseConnectionManager
\* .execute_with_retry attempt the operation again when it fails with a
\* transient dependency error and retry_config.max_attempts > 1: the call is
\* not over after the first failure and the operation is invoked once more.
C11_ManagerRetries ==
    [][ \A p \in Procs : \A raw \in TransientRaw \cap RawOutcomes(owner) :
          ( /\ owner \in Managers \ {"ExternalServiceManager"}
            /\ ManagerMaxAttempts(owner) > 1
            /\ Return(p, raw) )
             => (pc'[p] = "infunc" /\ dispatched' = dispatched + 1) ]_vars

\* C17: the breaker enters HALF_OPEN only from OPEN, only in a call(), and
\* only when now - last_failure_time >= recovery_timeout.
C17_HalfOpenOnlyAfterRecovery ==
    [][ (state' = "HALF_OPEN" /\ state # "HALF_OPEN")
          => /\ state = "OPEN"
             /\ last_failure_time # None
             /\ (now - last_failure_time) * TickSeconds >= recovery_timeout
             /\ \E p \in Procs : Call(p) ]_vars

\* a trial call is in flight in a HALF_OPEN breaker
C17_Witness ==
    /\ state = "HALF_OPEN"
    /\ \E p \in Procs : pc[p] = "infunc" /\ entered[p] = "HALF_OPEN"
    /\ (now - last_failure_time) * TickSeconds >= recovery_timeout

\* C18: every call that completes with the counted exception adds exactly
\* one to failure_count, whatever other calls are in flight, and the count
\* only goes down when a call succeeds.
C18_NoUnderCount ==
    [][ /\ \A p \in Procs : \A raw \in RawOutcomes(owner) :
             (Return(p, raw) /\ Counted(owner, Classify(owner, raw)))
                => failure_count' = failure_count + 1
        /\ failure_count' < failure_count => \E p \in Procs : Return(p, "ok") ]_vars

\* two overlapping calls have both failed, the second one counted while the
\* breaker was already OPEN
C18_Witness ==
    /\ failure_threshold = 1
    /\ failure_count = 2
    /\ dispatched = 2
    /\ calls = 2
    /\ AllIdle

\* C28: the completion of a call that was let through while the breaker was
\* CLOSED and that finds it OPEN leaves it OPEN and does not lower
\* failure_count.
C28_StragglerKeepsOpen ==
    [][ \A p \in Procs :
          ( /\ pc[p] = "infunc"
            /\ entered[p] = "CLOSED"
            /\ state = "OPEN"
            /\ pc'[p] = "idle" )
             => (state' = "OPEN" /\ failure_count' >= failure_count) ]_vars

\* C27: once the dependency has recovered, a breaker that is OPEN or
\* HALF_OPEN eventually becomes CLOSED with failure_count = 0, provided time
\* advances and call() keeps being invoked.
C27_EventuallyClosed ==
    (recovered /\ state \in {"OPEN", "HALF_OPEN"})
        ~> (state = "CLOSED" /\ failure_count = 0)

\* the dependency has recovered while the breaker is OPEN and
\* recovery_timeout has not elapsed
C27_Witness ==
    /\ recovered
    /\ state = "OPEN"
    /\ last_failure_time # None
    /\ (now - last_failure_time) * TickSeconds < recovery_timeout

\* --------------------------------------------------------- retry loops ----
RECURSIVE Pow2(_)
Pow2(n) == IF n = 0 THEN 1 ELSE 2 * Pow2(n - 1)

\* what self.client.request can do: a response with a status, or an exception
HttpStatuses   == {"200", "400", "404", "409", "429", "500", "502", "503", "504"}
HttpExceptions == {"TimeoutException", "ConnectError", "Exception"}
HttpOutcomes   == HttpStatuses \cup HttpExceptions

\* what redis_client.setex can do
SetexOutcomes == {"ok", "RedisError", "Exception"}

\* the status list that also retries a 404
RetryStatusCodesWith404 == {"404", "502", "503", "504"}

\* `response.status_code in [502, 503, 504]`
RetryStatusCodes == {"502", "503", "504"}

\* `except (httpx.TimeoutException, httpx.ConnectError, httpx.HTTPStatusError)`
CaughtForRetry == {"TimeoutException", "ConnectError", "HTTPStatusError"}

\* random.uniform(0.1, 0.5), in tenths
JitterTenths == {1, 3, 5}

\* wait_time = base_wait + base_wait * jitter, base_wait = 2 ** attempt, in tenths of a second
WaitTime(a, j) == 10 * Pow2(a) + Pow2(a) * j

\* retry_config.base_delay * (2 ** attempt)
CacheDelay(a) == retry_config.base_delay * Pow2(a)

\* a loop that makes one iteration too few: range(self.retries)
LoopBoundShort ==
    IF op = "_make_request" THEN retries ELSE retry_config.max_attempts - 1

\* the bound of `for attempt in range(...)`
LoopBound ==
    IF op = "_make_request" THEN retries + 1 ELSE retry_config.max_attempts

\* what follows the loop: `raise last_exception` / `return False`
AfterLoop(exc) ==
    IF op = "_make_request" THEN <<"raised", exc>> ELSE <<"returned", "False">>

\* the failures the taxonomy calls retryable
RetryableFailures == {"TimeoutException", "ConnectError", "502", "503", "504", "RedisError"}
\* the failures the taxonomy never retries
NonRetryable == {"Exception", "400", "404", "409"}

\* str(uuid.uuid4())
Uuids == {"uuid1", "uuid2"}

\* get_correlation_id(): what it can return
GetCorrelationId ==
    IF correlation_id_var # "None" THEN {correlation_id_var} ELSE Uuids

\* a header looked up again for each attempt
AttemptHeaderLookedUpAgain(a) ==
    IF correlation_id_var # "None" THEN correlation_id_var
    ELSE IF a % 2 = 0 THEN "uuid1" ELSE "uuid2"

\* the header of the request of one attempt: **kwargs, built before the loop
AttemptHeader(a) == headers

Finish(res) ==
    /\ rpc' = "done"
    /\ result' = res
    /\ UNCHANGED <<attempt, delays>>

Sleep(d) ==
    /\ rpc' = "sleep"
    /\ delays' = Append(delays, d)
    /\ UNCHANGED <<attempt, result>>

\* the end of an iteration that neither returned, raised nor slept
NextIteration(exc) ==
    IF attempt + 1 < LoopBound
    THEN /\ attempt' = attempt + 1
         /\ UNCHANGED <<rpc, result, delays>>
    ELSE /\ rpc' = "done"
         /\ result' = AfterLoop(exc)
         /\ UNCHANGED <<attempt, delays>>

Count(out) ==
    /\ invoked' = invoked + 1
    /\ lastOutcome' = out
    /\ failed' = IF out \in RetryableFailures THEN failed + 1 ELSE failed

\* one iteration of _make_request, up to its return, raise or asyncio.sleep
MakeRequestAttempt ==
    /\ op = "_make_request"
    /\ rpc = "attempt"
    /\ \E out \in HttpOutcomes : \E j \in JitterTenths :
         LET raised == IF out \in HttpStatuses
                       THEN IF out \in RetryStatusCodes /\ attempt < retries
                            THEN "HTTPStatusError" ELSE "-"
                       ELSE out
         IN  /\ Count(out)
             /\ sent' = Append(sent, AttemptHeader(attempt))
             /\ IF raised = "-"
                THEN Finish(<<"returned", out>>) /\ UNCHANGED last_exception
                ELSE IF raised \in CaughtForRetry
                THEN /\ last_exception' = raised
                     /\ IF attempt < retries
                        THEN Sleep(WaitTime(attempt, j))
                        ELSE NextIteration(raised)
                ELSE Finish(<<"raised", raised>>) /\ UNCHANGED last_exception
    /\ UNCHANGED <<op, retries, retry_config, correlation_id_var, headers>>
    /\ UNCHANGED <<breakerVars, sdVars, restVars>>

\* one iteration of set_with_retry, up to its return, raise or asyncio.sleep
SetWithRetryAttempt ==
    /\ op = "set_with_retry"
    /\ rpc = "attempt"
    /\ \E out \in SetexOutcomes :
         /\ Count(out)
         /\ IF out = "ok"
            THEN Finish(<<"returned", "True">>)
            ELSE IF out = "RedisError"
            THEN IF attempt < retry_config.max_attempts - 1
                 THEN Sleep(CacheDelay(attempt))
                 ELSE NextIteration(out)
            ELSE Finish(<<"raised", out>>)
    /\ UNCHANGED <<op, retries, retry_config, last_exception,
                   correlation_id_var, headers, sent>>
    /\ UNCHANGED <<breakerVars, sdVars, restVars>>

\* asyncio.sleep returns and the loop goes on
Wake ==
    /\ rpc = "sleep"
    /\ IF attempt + 1 < LoopBound
       THEN /\ attempt' = attempt + 1
            /\ rpc' = "attempt"
            /\ UNCHANGED result
       ELSE /\ rpc' = "done"
            /\ result' = AfterLoop(last_exception)
            /\ UNCHANGED attempt
    /\ UNCHANGED <<op, retries, retry_config, invoked, failed, lastOutcome,
                   last_exception, delays, correlation_id_var, headers, sent>>
    /\ UNCHANGED <<breakerVars, sdVars, restVars>>

RetryConfigs ==
    { c \in [max_attempts : 1..MaxRetries, base_delay : 1..MaxBaseDelay,
             max_delay : 1..MaxMaxDelay] : c.base_delay <= c.max_delay }

\* a breaker nobody calls
BreakerParked ==
    /\ owner = "CircuitBreaker"
    /\ failure_threshold = 5
    /\ recovery_timeout = 60
    /\ failure_count = 0
    /\ last_failure_time = None
    /\ state = "CLOSED"
    /\ now = 0
    /\ pc = [p \in Procs |-> "idle"]
    /\ entered = [p \in Procs |-> "-"]
    /\ calls = 0
    /\ dispatched = 0
    /\ seqFails = 0
    /\ recovered = FALSE

\* a call of _make_request or of set_with_retry begins
RetryInit ==
    /\ op \in {"_make_request", "set_with_retry"}
    /\ IF op = "_make_request"
       THEN /\ retries \in 0..MaxRetries
            /\ retry_config = [max_attempts |-> 1, base_delay |-> 1, max_delay |-> 1]
       ELSE /\ retries = 0
            /\ retry_config \in RetryConfigs
    /\ attempt = 0
    /\ rpc = "attempt"
    /\ invoked = 0
    /\ failed = 0
    /\ lastOutcome = "-"
    /\ last_exception = "None"
    /\ delays = <<>>
    /\ result = <<"-", "-">>
    /\ correlation_id_var \in {"None", "cid"}
    /\ headers \in IF op = "_make_request" THEN GetCorrelationId ELSE {"-"}
    /\ sent = <<>>

InitRetry == BreakerParked /\ RetryInit /\ SdParked /\ RestParked

NextRetry ==
    \/ MakeRequestAttempt
    \/ SetWithRetryAttempt
    \/ Wake

SpecRetry == InitRetry /\ [][NextRetry]_vars

\* the keys of `details` an exception class carries to the caller: the httpx
\* exceptions have none, ExternalServiceError adds service_name
Details(exc) ==
    IF exc = "ExternalServiceError" THEN {"service_name", "original_error"} ELSE {}

\* --------------------------------------------------- retry properties ----
Limit == IF op = "_make_request" THEN retries ELSE retry_config.max_attempts

\* every invocation so far failed with a retryable failure and the call is over
Exhausted == rpc = "done" /\ invoked > 0 /\ failed = invoked

\* C7 as stated: a permanently failing retryable operation is invoked exactly
\* n times, n the attempt limit (retries for _make_request, max_attempts for
\* set_with_retry), n >= 1.
C7_InvokedExactlyLimit ==
    (Exhausted /\ Limit >= 1) => invoked = Limit

\* C7 as amended: a permanently failing retryable operation is invoked exactly
\* retries + 1 times by _make_request and exactly max_attempts times by
\* set_with_retry.
C7_InvokedExactly ==
    Exhausted =>
        invoked = IF op = "_make_request" THEN retries + 1
                  ELSE retry_config.max_attempts

\* _make_request with retries = 3 gave up after four failing requests
C7_Witness ==
    /\ op = "_make_request"
    /\ retries = 3
    /\ Exhausted
    /\ invoked = 4

C9_DelaysCapped ==
    op = "set_with_retry" =>
        \A i \in 1..Len(delays) :
            /\ delays[i] <= retry_config.max_delay
            /\ (i > 1 => delays[i - 1] <= delays[i])

\* C10: when every attempt failed with a retryable failure the caller gets a
\* raised error, never a return value.
C10_ExhaustedIsRaised ==
    Exhausted => result[1] = "raised"

\* C16: every request _make_request dispatches is made inside a call() of
\* the circuit breaker of the service, so that an OPEN breaker can stop it.
C16_GuardedByBreaker ==
    (op = "_make_request" /\ invoked > 0)
        => (calls > 0 /\ ~(state = "OPEN" /\ NotRecovered))

\* C19: the error raised after the attempts are exhausted carries
\* attemptCount and the service name in its details.
C19_AttemptCountInDetails ==
    (Exhausted /\ result[1] = "raised")
        => {"attemptCount", "service_name"} \subseteq Details(result[2])

\* C20: a 429 response is retried while attempts remain: the call is not
\* over with the 429.
C20_RateLimitedRetried ==
    (op = "_make_request" /\ lastOutcome = "429" /\ invoked <= retries)
        => rpc # "done"

\* C26: every request _make_request dispatches carries an X-Correlation-ID,
\* and all the requests of one call carry the same one: the id of the
\* request context when there is one.
C26_SameCorrelationId ==
    op = "_make_request" =>
        /\ Len(sent) = invoked
        /\ \A i \in 1..Len(sent) :
              /\ sent[i] \notin {"None", "-"}
              /\ sent[i] = sent[1]
              /\ correlation_id_var # "None" => sent[i] = correlation_id_var

\* three requests of one call went out with the same generated id
C26_Witness ==
    /\ op = "_make_request"
    /\ correlation_id_var = "None"
    /\ Len(sent) = 3
    /\ sent[1] \in Uuids
    /\ sent[3] = sent[1]

\* the failures the taxonomy calls retryable, the rate-limited ones included
Absorbed == RetryableFailures \cup {"429"}

\* C21: retryable failures on the first k attempts, k below the attempt
\* limit, are not surfaced: the call goes on after each of them, and when an
\* invocation then succeeds the caller receives that result and the operation
\* is not invoked again.
C21_FailuresAbsorbed ==
    /\ (lastOutcome \in Absorbed /\ invoked < Limit) => rpc # "done"
    /\ lastOutcome \in {"200", "ok"}
          => /\ rpc = "done"
             /\ result = <<"returned", IF op = "_make_request" THEN "200" ELSE "True">>


\* ------------------------------------- service discovery (order-processing) ----
\* get_service_endpoint and get_service_health_endpoint contain one await,
\* of _refresh_service_cache, which itself awaits nothing (the boto3 call is
\* synchronous): a call runs from start to end without another call of the
\* event loop in between. Calls created together (tasks) run one after the
\* other, in any order.
MaxLoopTime      == 2
CacheTickSeconds == 300

cache_ttl == 300

Ops == {"get_service_endpoint", "get_service_health_endpoint"}

RegistryUrls == { <<"reg1">>, <<"reg2", "/">> }
EnvValues    == { Missing, <<"env", "/">> }

\* what the parameters of one service can amount to
Entries ==
    { NoEntry,
      [present |-> TRUE, full_url |-> Missing, health_endpoint |-> <<"/ready">>],
      [present |-> TRUE, full_url |-> <<"reg1">>, health_endpoint |-> Missing],
      [present |-> TRUE, full_url |-> <<"reg2", "/">>,
       health_endpoint |-> <<"http", "hc">>] }

\* what get_parameters_by_path can return, parsed into `services`; every
\* shape of entry occurs for "auth", "product-catalog" is registered with
\* its full_url alone or not at all
Snapshots ==
    { f \in [Services -> Entries] :
        /\ f["product-catalog"].health_endpoint = Missing
        /\ f["product-catalog"].present => f["product-catalog"].full_url # Missing }

\* `if endpoint:`
Truthy(u) == u # Missing /\ u # <<>>

RECURSIVE RStrip(_)
\* str.rstrip('/')
RStrip(u) ==
    IF u # <<>> /\ u[Len(u)] = "/" THEN RStrip(SubSeq(u, 1, Len(u) - 1)) ELSE u

\* a validity check that does not look at the age of the cache
IsCacheValidAnyAge ==
    \E s \in Services : service_cache[s].present

\* a validity check under which the cache is never valid
IsCacheValidNever ==
    /\ \E s \in Services : service_cache[s].present
    /\ (loop_time - last_cache_update) * CacheTickSeconds < 0

IsCacheValid ==
    /\ \E s \in Services : service_cache[s].present
    /\ (loop_time - last_cache_update) * CacheTickSeconds < cache_ttl

EnvVarMap(s) ==
    CASE s = "auth"            -> "AUTH_SERVICE_URL"
      [] s = "product-catalog" -> "PRODUCT_SERVICE_URL"

\* a fallback that reads the other service's variable
GetFallbackEndpointOfOther(s) ==
    environ[CHOOSE v \in EnvVars : v # EnvVarMap(s)]

GetFallbackEndpoint(s) == environ[EnvVarMap(s)]

\* a failed fetch that throws the previous snapshot away
RefreshFailedDropsCache ==
    /\ service_cache' = EmptyCache
    /\ last_cache_update' = last_cache_update
    /\ lastFetch' = "failed"

\* get_parameters_by_path raised: the except clauses only log
RefreshFailed ==
    /\ UNCHANGED <<service_cache, last_cache_update>>
    /\ lastFetch' = "failed"

\* a successful fetch that keeps the old entries of the services it did not return
RefreshSucceededMerges(services) ==
    /\ service_cache' = [s \in Services |-> IF services[s].present
                                           THEN services[s] ELSE service_cache[s]]
    /\ last_cache_update' = loop_time
    /\ lastFetch' = "ok"

RefreshSucceeded(services) ==
    /\ service_cache' = services
    /\ last_cache_update' = loop_time
    /\ lastFetch' = "ok"

RefreshServiceCache ==
    IF ~ssm_available
    THEN /\ UNCHANGED <<service_cache, last_cache_update, fetched>>
         /\ lastFetch' = "none"
    ELSE \/ RefreshFailed /\ UNCHANGED fetched
         \/ \E services \in Snapshots :
               /\ RefreshSucceeded(services)
               /\ fetched' = [services |-> services, at |-> loop_time]

NoRefresh ==
    /\ UNCHANGED <<service_cache, last_cache_update, fetched>>
    /\ lastFetch' = "none"


HasUrl(cache, s) == cache[s].present /\ Truthy(cache[s].full_url)

Returned(o, s, src, u) == [op |-> o, service |-> s, source |-> src, url |-> u]

\* one whole call of get_service_endpoint(s)
GetServiceEndpoint(p, s) ==
    /\ tasks[p] = <<"get_service_endpoint", s>>
    /\ tasks' = [tasks EXCEPT ![p] = NoTask]
    /\ IF IsCacheValid /\ HasUrl(service_cache, s)
       THEN /\ NoRefresh
            /\ sdResult' = Returned("get_service_endpoint", s, "cache",
                                    service_cache[s].full_url)
            /\ UNCHANGED batchFetches
       ELSE /\ RefreshServiceCache
            /\ sdResult' =
                 IF HasUrl(service_cache', s)
                 THEN Returned("get_service_endpoint", s, "refreshed",
                               service_cache'[s].full_url)
                 ELSE IF Truthy(GetFallbackEndpoint(s))
                 THEN Returned("get_service_endpoint", s, "fallback",
                               GetFallbackEndpoint(s))
                 ELSE Returned("get_service_endpoint", s, "not_found", Missing)
            /\ batchFetches' = IF ~IsCacheValid /\ lastFetch' # "none"
                               THEN batchFetches + 1 ELSE batchFetches
    /\ UNCHANGED <<ssm_available, environ, loop_time, allServices>>
    /\ UNCHANGED <<breakerVars, retryVars, restVars>>

\* health_url of a cached service
HealthUrl(service_info) ==
    LET health_path == IF service_info.health_endpoint = Missing
                       THEN <<"/health">> ELSE service_info.health_endpoint
    IN  IF health_path # <<>> /\ health_path[1] = "http"
        THEN health_path
        ELSE RStrip(service_info.full_url) \o health_path

\* one whole call of get_service_health_endpoint(s)
GetServiceHealthEndpoint(p, s) ==
    /\ tasks[p] = <<"get_service_health_endpoint", s>>
    /\ tasks' = [tasks EXCEPT ![p] = NoTask]
    /\ IF ~IsCacheValid
       THEN /\ RefreshServiceCache
            /\ batchFetches' = IF lastFetch' # "none"
                               THEN batchFetches + 1 ELSE batchFetches
       ELSE /\ NoRefresh
            /\ UNCHANGED batchFetches
    /\ sdResult' =
         IF HasUrl(service_cache', s)
         THEN Returned("get_service_health_endpoint", s, "cache",
                       HealthUrl(service_cache'[s]))
         ELSE IF Truthy(GetFallbackEndpoint(s))
         THEN Returned("get_service_health_endpoint", s, "fallback",
                       RStrip(GetFallbackEndpoint(s)) \o <<"/health">>)
         ELSE Returned("get_service_health_endpoint", s, "not_found", Missing)
    /\ UNCHANGED <<ssm_available, environ, loop_time, allServices>>
    /\ UNCHANGED <<breakerVars, retryVars, restVars>>

\* a call of get_all_services waiting to run
AllTask == <<"get_all_services", "-">>

\* one whole call of get_all_services()
GetAllServices(p) ==
    /\ tasks[p] = AllTask
    /\ tasks' = [tasks EXCEPT ![p] = NoTask]
    /\ IF ~IsCacheValid THEN RefreshServiceCache ELSE NoRefresh
    /\ allServices' = service_cache'
    /\ sdResult' = Returned("get_all_services", "-", "copy", Missing)
    /\ UNCHANGED <<ssm_available, environ, loop_time, batchFetches>>
    /\ UNCHANGED <<breakerVars, retryVars, restVars>>

\* the callers are interchangeable: one order of the calls created together
\* stands for all its permutations
TaskRank(t) ==
    CASE t = NoTask -> 0
      [] t[1] = "get_service_endpoint" /\ t[2] = "auth" -> 1
      [] t[1] = "get_service_endpoint" /\ t[2] # "auth" -> 2
      [] t[1] = "get_service_health_endpoint" /\ t[2] = "auth" -> 3
      [] t[1] = "get_service_health_endpoint" /\ t[2] # "auth" -> 4
      [] OTHER -> 5

\* calls are created together, as by simultaneous requests; the calls before
\* them have returned to their callers
Gather ==
    /\ \A p \in Procs : tasks[p] = NoTask
    /\ \E t \in [Procs -> {NoTask, AllTask} \cup (Ops \X Services)] :
          /\ \E p \in Procs : t[p] # NoTask
          /\ \A p, q \in Procs : p < q => TaskRank(t[p]) <= TaskRank(t[q])
          /\ tasks' = t
    /\ batchFetches' = 0
    /\ lastFetch' = "none"
    /\ sdResult' = NoResult
    /\ allServices' = EmptyCache
    /\ UNCHANGED <<service_cache, last_cache_update, ssm_available, environ,
                   loop_time, fetched>>
    /\ UNCHANGED <<breakerVars, retryVars, restVars>>

\* the loop clock advances; the calls created together run at one clock reading
SdTick ==
    /\ \A p \in Procs : tasks[p] = NoTask
    /\ loop_time < MaxLoopTime
    /\ loop_time' = loop_time + 1
    /\ UNCHANGED <<service_cache, last_cache_update, ssm_available, environ,
                   tasks, batchFetches, lastFetch, sdResult, allServices,
                   fetched>>
    /\ UNCHANGED <<breakerVars, retryVars, restVars>>

\* ServiceDiscovery.__init__
SdInit ==
    /\ service_cache = EmptyCache
    /\ last_cache_update = 0
    /\ ssm_available \in BOOLEAN
    /\ environ \in [EnvVars -> EnvValues]
    /\ loop_time = 0
    /\ tasks = [p \in Procs |-> NoTask]
    /\ batchFetches = 0
    /\ lastFetch = "none"
    /\ sdResult = NoResult
    /\ allServices = EmptyCache
    /\ fetched = NothingFetched

InitSD == BreakerParked /\ RetryParked /\ SdInit /\ RestParked

NextSD ==
    \/ \E p \in Procs, s \in Services : GetServiceEndpoint(p, s)
    \/ \E p \in Procs, s \in Services : GetServiceHealthEndpoint(p, s)
    \/ \E p \in Procs : GetAllServices(p)
    \/ Gather
    \/ SdTick

SpecSD == InitSD /\ [][NextSD]_vars


\* --------------------------------------- service discovery properties ----
\* the step in which caller p's call of o(s) runs, from start to return
Ran(p, o, s) == tasks[p] = <<o, s>> /\ tasks'[p] = NoTask

\* C12: a call of get_service_endpoint(s) that finds an entry with a URL for
\* s in a cache younger than the TTL returns that URL and makes no registry
\* fetch.
C12_CachedUrlNoFetch ==
    [][ \A p \in Procs, s \in Services :
          ( /\ Ran(p, "get_service_endpoint", s)
            /\ service_cache[s].present
            /\ Truthy(service_cache[s].full_url)
            /\ (loop_time - last_cache_update) * CacheTickSeconds < cache_ttl )
             => /\ sdResult'.url = service_cache[s].full_url
                /\ lastFetch' = "none"
                /\ UNCHANGED <<service_cache, last_cache_update>> ]_vars

\* a call has been answered from the valid cache although SSM is available
C12_Witness ==
    /\ ssm_available
    /\ sdResult.op = "get_service_endpoint"
    /\ sdResult.source = "cache"
    /\ lastFetch = "none"
    /\ sdResult.url = service_cache[sdResult.service].full_url
    /\ (loop_time - last_cache_update) * CacheTickSeconds < cache_ttl

\* C13: when the cache has expired and the registry fetch of the call fails,
\* get_service_endpoint(s) returns the stale URL of s, or else the fallback
\* URL of s; it does not return not-found while either exists.
C13_StaleOrFallback ==
    [][ \A p \in Procs, s \in Services :
          ( /\ Ran(p, "get_service_endpoint", s)
            /\ \E x \in Services : service_cache[x].present
            /\ (loop_time - last_cache_update) * CacheTickSeconds >= cache_ttl
            /\ lastFetch' = "failed" )
             => /\ HasUrl(service_cache, s)
                     => sdResult'.url = service_cache[s].full_url
                /\ (~HasUrl(service_cache, s) /\ Truthy(environ[EnvVarMap(s)]))
                     => sdResult'.url = environ[EnvVarMap(s)]
                /\ (HasUrl(service_cache, s) \/ Truthy(environ[EnvVarMap(s)]))
                     => Truthy(sdResult'.url) ]_vars

\* the stale URL has been returned after a failed fetch on an expired cache
C13_Witness ==
    /\ lastFetch = "failed"
    /\ sdResult.op = "get_service_endpoint"
    /\ sdResult.source = "refreshed"
    /\ (loop_time - last_cache_update) * CacheTickSeconds >= cache_ttl
    /\ sdResult.url = service_cache[sdResult.service].full_url

\* C14: the calls created together that find the cache expired or empty
\* make at most one registry fetch between them.
C14_SingleFlight == batchFetches <= 1

\* C15: get_service_endpoint(s) returns the URL the cache holds for s after
\* the refresh attempt whenever it holds one, and the fallback URL of s only
\* when it holds none; with no entry for "auth" and AUTH_SERVICE_URL set the
\* result is that URL.
C15_FallbackOnlyWithoutCachedUrl ==
    [][ \A p \in Procs, s \in Services :
          Ran(p, "get_service_endpoint", s)
             => /\ HasUrl(service_cache', s)
                     => sdResult'.url = service_cache'[s].full_url
                /\ ~HasUrl(service_cache', s)
                     => sdResult'.url = IF Truthy(environ[EnvVarMap(s)])
                                        THEN environ[EnvVarMap(s)] ELSE Missing
                /\ (Truthy(sdResult'.url) /\ sdResult'.url \notin RegistryUrls)
                     => ~HasUrl(service_cache', s) ]_vars

\* the registry answered without an entry for "auth" and the call returned
\* AUTH_SERVICE_URL
C15_Witness ==
    /\ lastFetch = "ok"
    /\ ~service_cache["auth"].present
    /\ Truthy(environ["AUTH_SERVICE_URL"])
    /\ sdResult = Returned("get_service_endpoint", "auth", "fallback",
                           environ["AUTH_SERVICE_URL"])


\* C22: a successful fetch replaces the whole cache together with its time,
\* a failed fetch leaves both as they were, and get_service_endpoint and
\* get_all_services only ever return what one single fetch answered.
C22_RefreshAllOrNothing ==
    [][ /\ service_cache' = fetched'.services
        /\ last_cache_update' = fetched'.at
        /\ lastFetch' = "failed" => UNCHANGED <<service_cache, last_cache_update>>
        /\ \A p \in Procs :
             /\ Ran(p, "get_all_services", "-") => allServices' = fetched'.services
             /\ \A s \in Services :
                  (Ran(p, "get_service_endpoint", s)
                     /\ sdResult'.source \in {"cache", "refreshed"})
                    => sdResult'.url = fetched'.services[s].full_url ]_vars

\* get_all_services has returned the snapshot of a fetch made after the
\* clock had advanced
C22_Witness ==
    /\ sdResult.op = "get_all_services"
    /\ lastFetch = "ok"
    /\ fetched.at > 0
    /\ allServices = fetched.services
    /\ \A s \in Services : allServices[s].present

\* C24: a call that finds the cache non-empty and of age >= TTL returns a
\* cached URL only after having attempted a registry fetch itself.
C24_ExpiredNeverServedUnfetched ==
    [][ \A p \in Procs, o \in Ops, s \in Services :
          ( /\ Ran(p, o, s)
            /\ \E x \in Services : service_cache[x].present
            /\ (loop_time - last_cache_update) * CacheTickSeconds >= cache_ttl
            /\ sdResult'.source \in {"cache", "refreshed"} )
             => lastFetch' \in {"ok", "failed"} ]_vars

\* the health URL of a stale entry has been returned after a failed fetch
C24_Witness ==
    /\ sdResult.op = "get_service_health_endpoint"
    /\ sdResult.source = "cache"
    /\ lastFetch = "failed"
    /\ (loop_time - last_cache_update) * CacheTickSeconds >= cache_ttl


\* ------------------------------------ HTTPClientService operations ----
ClientOps == {"validate_session", "check_product_availability",
              "get_product_details", "reserve_inventory", "update_inventory",
              "clear_user_cart"}

\* the service an operation talks to
ServiceOf(o) ==
    IF o \in {"validate_session", "clear_user_cart"} THEN "auth" ELSE "product-catalog"

\* what _make_request hands back: a response with a status, or an exception
ClientOutcomes == HttpOutcomes \cup {"204", "401"}

\* the operations whose try block ends with `except Exception`
CatchAll == {"validate_session", "get_product_details", "update_inventory",
             "clear_user_cart"}

\* what such an operation returns from its except clause and for an
\* unexpected status
Negative(o) ==
    IF o \in {"validate_session", "get_product_details"} THEN <<"returned", "None">>
    ELSE <<"returned", "False">>

\* _get_service_url
GetServiceUrl(service_name) ==
    IF use_service_discovery /\ Truthy(discovered)
    THEN discovered
    ELSE fallback_urls[service_name]

\* an HTTPException raised inside the try block of operation o
RaisedInside(o, code) ==
    IF o \in CatchAll THEN Negative(o) ELSE <<"raised", code>>

\* the operation up to its call of _make_request
ResolveUrl ==
    /\ cpc = "start"
    /\ IF Truthy(GetServiceUrl(ServiceOf(client_op)))
       THEN /\ cpc' = "request"
            /\ UNCHANGED client_result
       ELSE /\ cpc' = "done"
            /\ client_result' = RaisedInside(client_op, "503")
    /\ UNCHANGED <<client_op, use_service_discovery, fallback_urls, discovered,
                   requests>>
    /\ UNCHANGED <<breakerVars, retryVars, sdVars, instVars, invVars, orderVars>>

\* the result of operation o when _make_request ends with out
OperationResult(o, out) ==
    IF out \in {"TimeoutException", "ConnectError"}
    THEN IF o \in CatchAll THEN Negative(o) ELSE <<"raised", "503">>
    ELSE IF out = "Exception"
    THEN IF o \in CatchAll THEN Negative(o) ELSE <<"raised", "Exception">>
    ELSE IF out = "200" \/ (o = "clear_user_cart" /\ out = "204")
    THEN IF o \in {"update_inventory", "clear_user_cart"}
         THEN <<"returned", "True">> ELSE <<"returned", "data">>
    ELSE CASE o = "check_product_availability" -> RaisedInside(o, "503")
           [] o = "reserve_inventory"          -> RaisedInside(o, "409")
           [] OTHER                            -> Negative(o)

\* _make_request and what the operation makes of its outcome
Request ==
    /\ cpc = "request"
    /\ requests' = requests + 1
    /\ \E out \in ClientOutcomes : client_result' = OperationResult(client_op, out)
    /\ cpc' = "done"
    /\ UNCHANGED <<client_op, use_service_discovery, fallback_urls, discovered>>
    /\ UNCHANGED <<breakerVars, retryVars, sdVars, instVars, invVars, orderVars>>

\* an operation of HTTPClientService is called
ClientInit ==
    /\ client_op \in ClientOps
    /\ use_service_discovery \in BOOLEAN
    /\ fallback_urls \in [Services -> {Missing, <<"cfg">>}]
    /\ discovered \in {Missing, <<"reg1">>, <<"env", "/">>}
    /\ cpc = "start"
    /\ requests = 0
    /\ client_result = <<"-", "-">>

InitClient ==
    /\ BreakerParked /\ RetryParked /\ SdParked
    /\ ClientInit /\ InstParked /\ InvParked /\ OrdersParked

NextClient ==
    \/ ResolveUrl
    \/ Request

SpecClient == InitClient /\ [][NextClient]_vars

\* C23: when neither the service discovery nor the configured fallback
\* yields a URL for the service of the operation, the operation raises 503
\* to its caller and no request is made.
C23_NoUrlIs503 ==
    ( /\ cpc = "done"
      /\ client_op \in ClientOps
      /\ ~(use_service_discovery /\ Truthy(discovered))
      /\ ~Truthy(fallback_urls[ServiceOf(client_op)]) )
       => (client_result = <<"raised", "503">> /\ requests = 0)


\* ------------------------------------- ExternalServiceManager objects ----
\* ExternalServiceManager.__init__(service_name): a CircuitBreaker of its own
NewManager(service_name) ==
    [service_name |-> service_name, failure_count |-> 0, state |-> "CLOSED",
     last_failure_time |-> None]

Construct(i, service_name) ==
    /\ instances[i] = NoManager
    /\ instances' = [instances EXCEPT ![i] = NewManager(service_name)]
    /\ UNCHANGED <<breakerVars, retryVars, sdVars, clientVars, invVars, orderVars>>

\* call_service on object i, awaited to its end before the next call:
\* circuit_breaker.call(_call) with _call wrapping every exception of the
\* operation into ExternalServiceError
CallService(i, raw) ==
    LET m       == instances[i]
        elapsed == m.last_failure_time # None
                     /\ (now - m.last_failure_time) * TickSeconds
                          >= ManagerRecovery("ExternalServiceManager")
        exc     == Classify("ExternalServiceManager", raw)
    IN  /\ m.service_name # "-"
        /\ raw \in RawOutcomes("ExternalServiceManager")
        /\ ~(m.state = "OPEN" /\ ~elapsed)
        /\ instances' =
             [instances EXCEPT ![i] =
                IF exc = "ok"
                THEN [m EXCEPT !.failure_count = 0, !.state = "CLOSED"]
                ELSE IF Counted("ExternalServiceManager", exc)
                THEN [m EXCEPT
                        !.failure_count = m.failure_count + 1,
                        !.last_failure_time = now,
                        !.state = IF m.failure_count + 1
                                       >= ManagerThreshold("ExternalServiceManager")
                                  THEN "OPEN"
                                  ELSE IF m.state = "OPEN" THEN "HALF_OPEN"
                                  ELSE m.state]
                ELSE [m EXCEPT !.state = IF m.state = "OPEN" THEN "HALF_OPEN"
                                         ELSE m.state]]
        /\ UNCHANGED <<breakerVars, retryVars, sdVars, clientVars, invVars, orderVars>>

InitManagers == BreakerParked /\ RetryParked /\ SdParked /\ RestParked

NextManagers ==
    \/ \E i \in ManagerIds, service_name \in Services : Construct(i, service_name)
    \/ \E i \in ManagerIds, raw \in RawOutcomes("ExternalServiceManager") :
          CallService(i, raw)
    \/ Tick

SpecManagers == InitManagers /\ [][NextManagers]_vars

\* C25: the objects constructed for one service_name see one breaker state:
\* a failure counted through one of them is counted for the others.
C25_OneBreakerPerName ==
    \A i, j \in ManagerIds :
        (instances[i].service_name # "-"
           /\ instances[i].service_name = instances[j].service_name)
          => /\ instances[i].failure_count = instances[j].failure_count
             /\ instances[i].state = instances[j].state
             /\ instances[i].last_failure_time = instances[j].last_failure_time


\* --------------------------------------- ProductService inventory ----
MaxInventory == 3   \* largest inventory_count of the product row
MaxQuantity  == 2   \* largest quantity of one request

\* a row of the UPDATE's RETURNING clause, or no row
NoRow == [matched |-> FALSE, inventory_count |-> 0]

Row(count) == [matched |-> TRUE, inventory_count |-> count]

\* reserve_query without its WHERE guard on the count
ReserveQueryUnguarded(count, quantity) == Row(count - quantity)

\* reserve_query: UPDATE ... SET inventory_count = inventory_count - $2
\*                WHERE id = $1 AND inventory_count >= $2 RETURNING ...
ReserveQuery(count, quantity) ==
    IF count >= quantity THEN Row(count - quantity) ELSE NoRow

\* update_inventory's query: ... inventory_count + $2 WHERE ... + $2 >= 0
UpdateQuery(count, quantity_change) ==
    IF count + quantity_change >= 0 THEN Row(count + quantity_change) ELSE NoRow

\* release_query: ... inventory_count + $2 WHERE id = $1
ReleaseQuery(count, quantity) == Row(count + quantity)

\* the row after a statement: the returned count, or the old one
Stored(row) ==
    IF row.matched THEN row.inventory_count ELSE inventory_count

\* reserve_inventory up to its first statement: SELECT inventory_count
ReserveCheck(p, quantity) ==
    /\ ipc[p] = "idle"
    /\ quantity \in 1..MaxQuantity
    /\ IF inventory_count < quantity
       THEN /\ iresult' = [iresult EXCEPT ![p] = "insufficient"]
            /\ UNCHANGED <<ipc, ireq>>
       ELSE /\ ipc' = [ipc EXCEPT ![p] = "checked"]
            /\ ireq' = [ireq EXCEPT ![p] = quantity]
            /\ iresult' = [iresult EXCEPT ![p] = "-"]
    /\ UNCHANGED <<inventory_count>>
    /\ UNCHANGED <<breakerVars, retryVars, sdVars, clientVars, instVars, orderVars>>

\* reserve_inventory from its UPDATE to its return
ReserveUpdate(p) ==
    LET row == ReserveQuery(inventory_count, ireq[p])
    IN  /\ ipc[p] = "checked"
        /\ inventory_count' = Stored(row)
        /\ iresult' = [iresult EXCEPT ![p] =
                         IF row.matched THEN "reserved" ELSE "concurrent"]
        /\ ipc' = [ipc EXCEPT ![p] = "idle"]
        /\ ireq' = [ireq EXCEPT ![p] = 0]
        /\ UNCHANGED <<breakerVars, retryVars, sdVars, clientVars, instVars, orderVars>>

\* update_inventory: one statement
UpdateInventory(p, quantity_change) ==
    LET row == UpdateQuery(inventory_count, quantity_change)
    IN  /\ ipc[p] = "idle"
        /\ quantity_change \in (0 - MaxQuantity)..MaxQuantity
        /\ inventory_count + quantity_change <= MaxInventory
        /\ inventory_count' = Stored(row)
        /\ iresult' = [iresult EXCEPT ![p] =
                         IF row.matched THEN "True" ELSE "False"]
        /\ UNCHANGED <<ipc, ireq>>
        /\ UNCHANGED <<breakerVars, retryVars, sdVars, clientVars, instVars, orderVars>>

\* release_reservation: one statement
ReleaseReservation(p, quantity) ==
    LET row == ReleaseQuery(inventory_count, quantity)
    IN  /\ ipc[p] = "idle"
        /\ quantity \in 1..MaxQuantity
        /\ inventory_count + quantity <= MaxInventory
        /\ inventory_count' = Stored(row)
        /\ iresult' = [iresult EXCEPT ![p] = "released"]
        /\ UNCHANGED <<ipc, ireq>>
        /\ UNCHANGED <<breakerVars, retryVars, sdVars, clientVars, instVars, orderVars>>

InventoryInit ==
    /\ inventory_count \in 0..MaxInventory
    /\ ipc = [p \in Procs |-> "idle"]
    /\ ireq = [p \in Procs |-> 0]
    /\ iresult = [p \in Procs |-> "-"]

InitInventory ==
    /\ BreakerParked /\ RetryParked /\ SdParked
    /\ ClientParked /\ InstParked /\ OrdersParked
    /\ InventoryInit

NextInventory ==
    \/ \E p \in Procs, quantity \in 1..MaxQuantity : ReserveCheck(p, quantity)
    \/ \E p \in Procs : ReserveUpdate(p)
    \/ \E p \in Procs, quantity_change \in (0 - MaxQuantity)..MaxQuantity :
          UpdateInventory(p, quantity_change)
    \/ \E p \in Procs, quantity \in 1..MaxQuantity : ReleaseReservation(p, quantity)

SpecInventory == InitInventory /\ [][NextInventory]_vars

\* C29: whatever the interleaving of reserve_inventory, update_inventory and
\* release_reservation on the product, inventory_count is never negative.
C29_InventoryNeverNegative == inventory_count >= 0

\* a reservation that passed its check and then lost the race: its UPDATE
\* matched no row and the count stayed at zero
C29_Witness ==
    \E p \in Procs : iresult[p] = "concurrent" /\ inventory_count = 0


\* ------------------------------------------- order status requests ----
\* OrderStatus
OrderStatuses ==
    {"pending", "confirmed", "crafting", "shipping", "delivered", "cancelled"}

\* update_luxury_order: update_one({"orderId": order_id}, {"$set": ...});
\* the filter names the order only, the stored status is not looked at
UpdateLuxuryOrder(stored, new_status) ==
    IF stored = "absent"
    THEN [success |-> FALSE, status |-> stored]
    ELSE [success |-> TRUE, status |-> new_status]

\* confirm_order up to its first await's answer: get_order_by_id and the
\* two checks on the order it returned
ConfirmRead(p) ==
    /\ opc[p] = "idle"
    /\ IF order_status = "absent"
       THEN /\ oresult' = [oresult EXCEPT ![p] = "404"]
            /\ UNCHANGED opc
       ELSE IF order_status # "pending"
       THEN /\ oresult' = [oresult EXCEPT ![p] = "400"]
            /\ UNCHANGED opc
       ELSE /\ opc' = [opc EXCEPT ![p] = "checked"]
            /\ oresult' = [oresult EXCEPT ![p] = "-"]
    /\ UNCHANGED order_status
    /\ UNCHANGED <<breakerVars, retryVars, sdVars, clientVars, instVars, invVars>>

\* confirm_order's update_luxury_order(status=CONFIRMED, ...) and the check
\* of its result
ConfirmWrite(p) ==
    LET updated == UpdateLuxuryOrder(order_status, "confirmed")
    IN  /\ opc[p] = "checked"
        /\ order_status' = updated.status
        /\ oresult' = [oresult EXCEPT ![p] =
                         IF updated.success THEN "-" ELSE "500"]
        /\ opc' = [opc EXCEPT ![p] =
                     IF updated.success THEN "written" ELSE "idle"]
        /\ UNCHANGED <<breakerVars, retryVars, sdVars, clientVars, instVars, invVars>>

\* update_luxury_order_status's update_luxury_order with the given status
\* and the check of its result
UpdateStatus(p, new_status) ==
    LET updated == UpdateLuxuryOrder(order_status, new_status)
    IN  /\ opc[p] = "idle"
        /\ new_status \in OrderStatuses
        /\ order_status' = updated.status
        /\ oresult' = [oresult EXCEPT ![p] =
                         IF updated.success THEN "-" ELSE "404"]
        /\ opc' = [opc EXCEPT ![p] =
                     IF updated.success THEN "written" ELSE "idle"]
        /\ UNCHANGED <<breakerVars, retryVars, sdVars, clientVars, instVars, invVars>>

\* the end of both handlers: get_order_by_id once more, and the order it
\* returns is the response
ReadBack(p) ==
    /\ opc[p] = "written"
    /\ oresult' = [oresult EXCEPT ![p] = order_status]
    /\ opc' = [opc EXCEPT ![p] = "idle"]
    /\ UNCHANGED order_status
    /\ UNCHANGED <<breakerVars, retryVars, sdVars, clientVars, instVars, invVars>>

OrdersInit ==
    /\ order_status \in OrderStatuses \cup {"absent"}
    /\ opc = [p \in Procs |-> "idle"]
    /\ oresult = [p \in Procs |-> "-"]

InitOrders ==
    /\ BreakerParked /\ RetryParked /\ SdParked
    /\ ClientParked /\ InstParked /\ InvParked
    /\ OrdersInit

NextOrders ==
    \/ \E p \in Procs : ConfirmRead(p)
    \/ \E p \in Procs : ConfirmWrite(p)
    \/ \E p \in Procs, new_status \in OrderStatuses : UpdateStatus(p, new_status)
    \/ \E p \in Procs : ReadBack(p)

SpecOrders == InitOrders /\ [][NextOrders]_vars

\* C30: confirm_order's write never puts CONFIRMED over a stored status that
\* is not PENDING at the moment of the write, whatever other confirm_order
\* and status-update requests ran in between.
C30_ConfirmOnlyPending ==
    [][ \A p \in Procs :
          (opc[p] = "checked" /\ opc'[p] # "checked" /\ order_status # "pending")
            => order_status' = order_status ]_vars

====
